---- MODULE Spec2Model ----
(***************************************************************************)
(* A model of the Fetch family of kafka-go's client (fetch.go):            *)
(*                                                                         *)
(*   - Client.Fetch and Client.MultiFetch, one call per behaviour: the     *)
(*     request the caller passes, the wire request handed to the           *)
(*     round-trip transport, what the transport answers, and the value and *)
(*     error the call returns;                                             *)
(*   - the legacy v2 wire types of fetch.go with their size() and          *)
(*     writeTo() methods.                                                  *)
(*                                                                         *)
(* Go values are modelled as follows.  A 64-bit integer (int64, and int on *)
(* 64-bit platforms) is a record [hi, lo] of its two 32-bit halves, each   *)
(* read as a signed 32-bit number, so that the conversion int32(x) is the  *)
(* truncation x.lo the compiler generates.  An error is a record with a    *)
(* "type" field, a nil error being NilErr.  A nil pointer result is        *)
(* NilResp.  A RecordReader is a name, the nil interface being NilReader.  *)
(*                                                                         *)
(* Fields the operations only copy through and that no property below      *)
(* reads (Throttle, HighWatermark, LastStableOffset, LogStartOffset,       *)
(* MaxWaitTime, IsolationLevel) are left out of the records.               *)
(***************************************************************************)
EXTENDS Integers, Sequences, FiniteSets, TLC

VARIABLES
    pc,     \* "idle" before the call, "done" once it has returned
    op,     \* "none", "Fetch", "MultiFetch" or the wire type encoded
    req,    \* the request the caller passed
    sent,   \* the wire requests handed to roundTrip, in call order
    out,    \* what roundTrip returned: [err, res]
    ret,    \* the response pointer the call returned
    err,    \* the error the call returned
    unit,   \* codec: the wire value being encoded
    wb,     \* codec: the bytes writeTo appended to the write buffer
    sz      \* codec: what size() returned for unit

vars == <<pc, op, req, sent, out, ret, err, unit, wb, sz>>

codecVars == <<unit, wb, sz>>

----------------------------------------------------------------------------
(* Bounds of the model *)

\* topics in one broker reply
MaxTopics == 2
\* partition entries in one broker reply, all topics together
MaxParts == 2
\* partition specs in one MultiFetch request, all topics together
MaxSpecs == 2
\* elements of one array of a v2 wire value
MaxArray == 2

----------------------------------------------------------------------------
(* 64-bit integers *)

I64(hi, lo) == [hi |-> hi, lo |-> lo]

\* int32(x) for an int64 or int x: the low 32 bits
ToInt32(x) == x.lo

\* int(p) for an int32 p: sign extension
ToInt(p) == I64(IF p < 0 THEN -1 ELSE 0, p)

\* x == 0 for an int64 x
IsZero(x) == x.hi = 0 /\ x.lo = 0

\* x > 0 for an int64 x
IsPositive(x) == x.hi > 0 \/ (x.hi = 0 /\ x.lo # 0)

----------------------------------------------------------------------------
(* Errors, readers and nil *)

NilErr == [type |-> "nil"]
NilResp == [type |-> "nil"]
NilReader == "nil"
NoRequest == [type |-> "none"]
NoOutcome == [type |-> "none"]
NoReply == [type |-> "none"]

ErrNoTopic == [type |-> "protocol.ErrNoTopic"]
ErrNoPartition == [type |-> "protocol.ErrNoPartition"]

\* fmt.Errorf("<op>: %w", e)
Wrap(name, e) == [type |-> "wrapped", op |-> name, err |-> e]

\* makeError(code, ""): nil for code 0, the kafka Error of the code otherwise
makeError(code) == IF code = 0 THEN NilErr ELSE [type |-> "kafka.Error", code |-> code]

\* NewRecordReader() without records: an empty, non-nil reader
NewRecordReader == "empty"

----------------------------------------------------------------------------
(* Inputs *)

TopicNames == {"a", "b"}

\* error codes of a reply: none, OffsetOutOfRange, UnknownTopicOrPartition
GlobalCodes == {0, 1, 3}
PartitionCodes == {0, 1}

\* the record set of a reply partition: absent, or a reader
ReplyReaders == {NilReader, "r1"}

\* what roundTrip fails with
TransportErrors == {[type |-> "transport", cause |-> c] : c \in {"timeout", "canceled"}}

\* the lists of exactly n partition entries, their numbers left open
PartitionLists(n) == [1..n -> [ErrorCode : PartitionCodes, Records : ReplyReaders]]

\* a broker numbers the partition entries of a topic 0, 1, ...
NumberPartitions(ps) ==
    [i \in 1..Len(ps) |->
        [Partition |-> i - 1, ErrorCode |-> ps[i].ErrorCode, Records |-> ps[i].Records]]

ResponseTopics(n) ==
    {[Topic |-> t, Partitions |-> NumberPartitions(ps)] :
        t \in TopicNames, ps \in PartitionLists(n)}

RECURSIVE TopicLists(_, _)
\* the lists of exactly k reply topics holding at most n partitions together
TopicLists(k, n) ==
    IF k = 0 THEN {<<>>}
    ELSE UNION {{<<t>> \o rest : t \in ResponseTopics(j), rest \in TopicLists(k - 1, n - j)} :
                    j \in 0..n}

\* the decoded replies: a nil Topics slice, or up to MaxTopics topics
Replies ==
    {[ErrorCode |-> c, TopicsNil |-> TRUE, Topics |-> <<>>] : c \in GlobalCodes}
    \cup {[ErrorCode |-> c, TopicsNil |-> FALSE, Topics |-> ts] :
            c \in GlobalCodes, ts \in UNION {TopicLists(k, MaxParts) : k \in 0..MaxTopics}}

\* everything roundTrip can return
Outcomes ==
    {[err |-> NilErr, res |-> r] : r \in Replies}
    \cup {[err |-> e, res |-> NoReply] : e \in TransportErrors}

\* a few outcomes, for the calls whose request is what varies
FewOutcomes ==
    {o \in Outcomes :
        \/ o.err # NilErr
        \/ /\ o.res.ErrorCode = 0
           /\ Len(o.res.Topics) = 1
           /\ Len(o.res.Topics[1].Partitions) = 1
           /\ o.res.Topics[1].Topic = "a"}

\* int and int64 values: 0, 1, 5, -1, 2^32, 2^32 + 5
PartitionNumbers == {I64(0, 0), I64(0, 1), I64(1, 0)}
ByteCounts == {I64(0, 0), I64(0, 5), I64(-1, -1), I64(1, 0)}

FetchRequests ==
    [Topic : TopicNames, Partition : PartitionNumbers, Offset : {I64(0, 42)},
     MinBytes : {I64(0, 1)}, MaxBytes : {I64(1, 5)}]

FetchPartitionRequests ==
    [Partition : {I64(0, 0), I64(1, 1)}, Offset : {I64(0, 42)}, MaxBytes : ByteCounts]

SpecLists(n) == [1..n -> FetchPartitionRequests]

RECURSIVE SumLen(_, _)
\* the number of partition specs of the mapping m over the topics ks
SumLen(m, ks) ==
    IF ks = {} THEN 0
    ELSE LET k == CHOOSE x \in ks : TRUE IN Len(m[k]) + SumLen(m, ks \ {k})

\* the topic mappings holding at most MaxSpecs partition specs together
RequestMaps ==
    UNION {{m \in [ks -> UNION {SpecLists(n) : n \in 0..MaxSpecs}] : SumLen(m, ks) <= MaxSpecs} :
            ks \in SUBSET TopicNames}

MultiFetchRequests ==
    [Requests : RequestMaps, MinBytes : {I64(0, 1)}, MaxBytes : {I64(0, 7)}]

\* a few requests, for the calls whose reply is what varies
FewMultiFetchRequests ==
    {r \in MultiFetchRequests :
        /\ "a" \in DOMAIN r.Requests
        /\ \A t \in DOMAIN r.Requests :
              /\ Len(r.Requests[t]) = 1
              /\ r.Requests[t][1].Partition = I64(0, 0)
              /\ r.Requests[t][1].MaxBytes = I64(0, 0)}

\* the orders in which a range over a Go map may visit the keys ks
Orders(ks) ==
    {s \in [1..Cardinality(ks) -> ks] : \A i, j \in DOMAIN s : i # j => s[i] # s[j]}

----------------------------------------------------------------------------
(* Client.Fetch *)

\* the fetchAPI.Request Fetch builds
FetchWire(r) ==
    [ReplicaID |-> -1,
     MinBytes |-> ToInt32(r.MinBytes),
     MaxBytes |-> ToInt32(r.MaxBytes),
     SessionID |-> -1,
     SessionEpoch |-> -1,
     Topics |-> <<[Topic |-> r.Topic,
                   Partitions |-> <<[Partition |-> ToInt32(r.Partition),
                                     CurrentLeaderEpoch |-> -1,
                                     FetchOffset |-> r.Offset,
                                     LogStartOffset |-> -1,
                                     PartitionMaxBytes |-> ToInt32(r.MaxBytes)]>>]>>]

\* Fetch calling roundTrip again after a failure
FetchRoundTrips_Retry(r, o) ==
    IF o.err # NilErr THEN <<FetchWire(r), FetchWire(r)>> ELSE <<FetchWire(r)>>

\* the calls of roundTrip one Fetch makes, whatever the outcome o of the first
FetchRoundTrips(r, o) == <<FetchWire(r)>>

\* FetchResponse.Error with the precedence reversed: the global code first
FetchError_GlobalFirst(res, partition) ==
    IF res.ErrorCode # 0 THEN makeError(res.ErrorCode)
    ELSE makeError(partition.ErrorCode)

\* FetchResponse.Error: the global code, overwritten by a non-zero partition code
FetchError(res, partition) ==
    IF partition.ErrorCode # 0 THEN makeError(partition.ErrorCode)
    ELSE makeError(res.ErrorCode)

\* FetchResponse.Records: the reply's reader, an empty one if it is nil
FetchRecords(partition) ==
    IF partition.Records = NilReader THEN NewRecordReader ELSE partition.Records

\* the FetchResponse built from the first topic and its first partition
FetchResponseOf(res, topic, partition) ==
    [type |-> "FetchResponse",
     Topic |-> topic.Topic,
     Partition |-> ToInt(partition.Partition),
     Error |-> FetchError(res, partition),
     Records |-> FetchRecords(partition)]

\* Fetch returning an empty response, not an error, for a reply without topics
FetchReturn_EmptyResponse(o) ==
    IF o.err # NilErr
    THEN [ret |-> NilResp, err |-> Wrap("kafka.(*Client).Fetch", o.err)]
    ELSE IF Len(o.res.Topics) = 0 \/ Len(o.res.Topics[1].Partitions) = 0
    THEN [ret |-> [type |-> "FetchResponse",
                   Topic |-> "",
                   Partition |-> I64(0, 0),
                   Error |-> makeError(o.res.ErrorCode),
                   Records |-> NewRecordReader],
          err |-> NilErr]
    ELSE [ret |-> FetchResponseOf(o.res, o.res.Topics[1], o.res.Topics[1].Partitions[1]),
          err |-> NilErr]

\* what Fetch returns once roundTrip has returned o
FetchReturn(o) ==
    IF o.err # NilErr
    THEN [ret |-> NilResp, err |-> Wrap("kafka.(*Client).Fetch", o.err)]
    ELSE IF Len(o.res.Topics) = 0
    THEN [ret |-> NilResp, err |-> Wrap("kafka.(*Client).Fetch", ErrNoTopic)]
    ELSE IF Len(o.res.Topics[1].Partitions) = 0
    THEN [ret |-> NilResp, err |-> Wrap("kafka.(*Client).Fetch", ErrNoPartition)]
    ELSE [ret |-> FetchResponseOf(o.res, o.res.Topics[1], o.res.Topics[1].Partitions[1]),
          err |-> NilErr]

FetchCall(r, o) ==
    /\ pc' = "done"
    /\ op' = "Fetch"
    /\ req' = r
    /\ sent' = FetchRoundTrips(r, o)
    /\ out' = o
    /\ ret' = FetchReturn(o).ret
    /\ err' = FetchReturn(o).err
    /\ UNCHANGED codecVars

Fetch ==
    /\ pc = "idle"
    /\ \E r \in FetchRequests, o \in Outcomes : FetchCall(r, o)

----------------------------------------------------------------------------
(* Client.MultiFetch *)

\* PartitionMaxBytes falling back to the request's MaxBytes unless the spec's is > 0
PartitionMaxBytes_IfPositive(r, partition) ==
    IF IsPositive(partition.MaxBytes) THEN ToInt32(partition.MaxBytes) ELSE ToInt32(r.MaxBytes)

\* PartitionMaxBytes of a partition spec: its MaxBytes, the request's if that is 0
PartitionMaxBytes(r, partition) ==
    IF IsZero(partition.MaxBytes) THEN ToInt32(r.MaxBytes) ELSE ToInt32(partition.MaxBytes)

RequestPartition(r, partition) ==
    [Partition |-> ToInt32(partition.Partition),
     CurrentLeaderEpoch |-> -1,
     FetchOffset |-> partition.Offset,
     LogStartOffset |-> -1,
     PartitionMaxBytes |-> PartitionMaxBytes(r, partition)]

\* the topics of the wire request, the map being ranged over in the given order
MultiFetchTopics(r, order) ==
    [k \in 1..Len(order) |->
        [Topic |-> order[k],
         Partitions |-> [i \in 1..Len(r.Requests[order[k]]) |->
                            RequestPartition(r, r.Requests[order[k]][i])]]]

\* MultiFetch refusing nothing
MultiFetchRejects_Never(topics) == FALSE

\* MultiFetch refusing also the topics that list no partition
MultiFetchRejects_NoPartition(topics) ==
    \A k \in 1..Len(topics) : Len(topics[k].Partitions) = 0

\* the request is refused before any round trip
MultiFetchRejects(topics) == Len(topics) = 0

\* the fetchAPI.Request MultiFetch builds
MultiFetchWire(r, topics) ==
    [ReplicaID |-> -1,
     MinBytes |-> ToInt32(r.MinBytes),
     MaxBytes |-> ToInt32(r.MaxBytes),
     SessionID |-> 0,
     SessionEpoch |-> 0,
     Topics |-> topics]

\* the calls of roundTrip one MultiFetch makes, whatever the outcome o of the first
MultiFetchRoundTrips(r, topics, o) == <<MultiFetchWire(r, topics)>>

\* FetchPartitionResponse.Error taking the global code when the partition has none
MultiFetchPartitionError_GlobalLeak(res, p) ==
    IF p.ErrorCode # 0 THEN makeError(p.ErrorCode) ELSE makeError(res.ErrorCode)

\* FetchPartitionResponse.Error: the error of the partition's own code
MultiFetchPartitionError(res, p) == makeError(p.ErrorCode)

\* FetchPartitionResponse.Records without the substitution of an empty reader
MultiFetchRecords_AsReplied(p) == p.Records

\* FetchPartitionResponse.Records: the reply's reader, an empty one if it is nil
MultiFetchRecords(p) ==
    IF p.Records = NilReader THEN NewRecordReader ELSE p.Records

FetchPartitionResponseOf(res, p) ==
    [Partition |-> ToInt(p.Partition),
     Error |-> MultiFetchPartitionError(res, p),
     Records |-> MultiFetchRecords(p)]

\* the entry of the reply that the assignment ret.Responses[name] leaves in the map
LastIndex(ts, name) ==
    CHOOSE i \in 1..Len(ts) :
        ts[i].Topic = name /\ \A j \in (i + 1)..Len(ts) : ts[j].Topic # name

\* ret.Responses after the loop over res.Topics
MultiFetchResponses(res) ==
    [name \in {res.Topics[i].Topic : i \in 1..Len(res.Topics)} |->
        LET t == res.Topics[LastIndex(res.Topics, name)]
        IN [i \in 1..Len(t.Partitions) |-> FetchPartitionResponseOf(res, t.Partitions[i])]]

\* what MultiFetch returns once roundTrip has returned o
MultiFetchReturn(o) ==
    IF o.err # NilErr
    THEN [ret |-> NilResp, err |-> Wrap("kafka.(*Client).MultiFetch", o.err)]
    ELSE [ret |-> [type |-> "MultiFetchResponse",
                   Error |-> makeError(o.res.ErrorCode),
                   ResponsesNil |-> o.res.TopicsNil,
                   Responses |-> MultiFetchResponses(o.res)],
          err |-> NilErr]

MultiFetchCall(r, order, o) ==
    LET topics == MultiFetchTopics(r, order) IN
    /\ pc' = "done"
    /\ op' = "MultiFetch"
    /\ req' = r
    /\ IF MultiFetchRejects(topics)
       THEN /\ sent' = <<>>
            /\ out' = NoOutcome
            /\ ret' = NilResp
            /\ err' = Wrap("kafka.(*Client).MultiFetch", ErrNoTopic)
       ELSE /\ sent' = MultiFetchRoundTrips(r, topics, o)
            /\ out' = o
            /\ ret' = MultiFetchReturn(o).ret
            /\ err' = MultiFetchReturn(o).err
    /\ UNCHANGED codecVars

\* MultiFetch over the requests, with a plain reply or a transport error
MultiFetch ==
    /\ pc = "idle"
    /\ \E r \in MultiFetchRequests, o \in FewOutcomes :
          \E order \in Orders(DOMAIN r.Requests) : MultiFetchCall(r, order, o)

\* MultiFetch over the replies, with a plain request
MultiFetchReplies ==
    /\ pc = "idle"
    /\ \E r \in FewMultiFetchRequests, o \in Outcomes :
          \E order \in Orders(DOMAIN r.Requests) : MultiFetchCall(r, order, o)

----------------------------------------------------------------------------
(* The write buffer and the sizes of the primitives *)

\* the two bytes of an int16, big-endian, in two's complement
writeInt16(v) == <<(v \div 256) % 256, v % 256>>

\* the four bytes of an int32
writeInt32(v) ==
    <<(v \div 16777216) % 256, (v \div 65536) % 256, (v \div 256) % 256, v % 256>>

\* the eight bytes of an int64
writeInt64(x) == writeInt32(x.hi) \o writeInt32(x.lo)

\* a string: its length as an int16, then its bytes
writeString(s) == writeInt16(Len(s)) \o s

RECURSIVE Flatten(_)
Flatten(bs) == IF bs = <<>> THEN <<>> ELSE Head(bs) \o Flatten(Tail(bs))

\* an array: the number of elements as an int32, then each element's bytes
writeArray(bs) == writeInt32(Len(bs)) \o Flatten(bs)

sizeofString(s) == 2 + Len(s)

RECURSIVE Sum(_)
Sum(ns) == IF ns = <<>> THEN 0 ELSE Head(ns) + Sum(Tail(ns))

\* the element count, then the sizes the elements report
sizeofArray(ns) == 4 + Sum(ns)

\* a message set is taken as the bytes it encodes to
messageSet_size(ms) == Len(ms)
messageSet_writeTo(ms) == ms

----------------------------------------------------------------------------
(* The v2 wire types *)

\* a size() counting FetchOffset as 4 bytes
fetchRequestPartitionV2_size_Int32Offset(p) == 4 + 4 + 4

fetchRequestPartitionV2_size(p) == 4 + 8 + 4

fetchRequestPartitionV2_writeTo(p) ==
    writeInt32(p.Partition) \o writeInt64(p.FetchOffset) \o writeInt32(p.MaxBytes)

fetchRequestTopicV2_size(t) ==
    sizeofString(t.TopicName)
    + sizeofArray([i \in 1..Len(t.Partitions) |-> fetchRequestPartitionV2_size(t.Partitions[i])])

fetchRequestTopicV2_writeTo(t) ==
    writeString(t.TopicName)
    \o writeArray([i \in 1..Len(t.Partitions) |->
                      fetchRequestPartitionV2_writeTo(t.Partitions[i])])

fetchRequestV2_size(r) ==
    4 + 4 + 4 + sizeofArray([i \in 1..Len(r.Topics) |-> fetchRequestTopicV2_size(r.Topics[i])])

fetchRequestV2_writeTo(r) ==
    writeInt32(r.ReplicaID) \o writeInt32(r.MaxWaitTime) \o writeInt32(r.MinBytes)
    \o writeArray([i \in 1..Len(r.Topics) |-> fetchRequestTopicV2_writeTo(r.Topics[i])])

fetchResponsePartitionV2_size(p) == 4 + 2 + 8 + 4 + messageSet_size(p.MessageSet)

fetchResponsePartitionV2_writeTo(p) ==
    writeInt32(p.Partition) \o writeInt16(p.ErrorCode) \o writeInt64(p.HighwaterMarkOffset)
    \o writeInt32(p.MessageSetSize) \o messageSet_writeTo(p.MessageSet)

fetchResponseTopicV2_size(t) ==
    sizeofString(t.TopicName)
    + sizeofArray([i \in 1..Len(t.Partitions) |-> fetchResponsePartitionV2_size(t.Partitions[i])])

fetchResponseTopicV2_writeTo(t) ==
    writeString(t.TopicName)
    \o writeArray([i \in 1..Len(t.Partitions) |->
                      fetchResponsePartitionV2_writeTo(t.Partitions[i])])

fetchResponseV2_size(r) ==
    4 + sizeofArray([i \in 1..Len(r.Topics) |-> fetchResponseTopicV2_size(r.Topics[i])])

fetchResponseV2_writeTo(r) ==
    writeInt32(r.ThrottleTime)
    \o writeArray([i \in 1..Len(r.Topics) |-> fetchResponseTopicV2_writeTo(r.Topics[i])])

----------------------------------------------------------------------------
(* Wire values to encode *)

\* the arrays of at most MaxArray elements of S
Arrays(S) == UNION {[1..n -> S] : n \in 0..MaxArray}

\* topic names as byte strings: "", "a", "ab"
WireNames == {<<>>, <<97>>, <<97, 98>>}

RequestPartitionsV2 ==
    {[Partition |-> 0, FetchOffset |-> I64(0, 42), MaxBytes |-> 1024],
     [Partition |-> -1, FetchOffset |-> I64(-1, -1), MaxBytes |-> -1]}

RequestTopicsV2 == [TopicName : WireNames, Partitions : Arrays(RequestPartitionsV2)]

\* the topics of a whole request or response: fewer, to keep the arrays of them small
FewNames == {<<>>, <<97>>}

RequestsV2 ==
    [ReplicaID : {-1}, MaxWaitTime : {500}, MinBytes : {1},
     Topics : Arrays([TopicName : FewNames, Partitions : Arrays(RequestPartitionsV2)])]

ResponsePartitionsV2 ==
    {[Partition |-> 0, ErrorCode |-> 0, HighwaterMarkOffset |-> I64(0, 100),
      MessageSetSize |-> 3, MessageSet |-> <<1, 2, 3>>],
     [Partition |-> 1, ErrorCode |-> -1, HighwaterMarkOffset |-> I64(-1, -1),
      MessageSetSize |-> 0, MessageSet |-> <<>>]}

ResponseTopicsV2 == [TopicName : WireNames, Partitions : Arrays(ResponsePartitionsV2)]

ResponsesV2 ==
    [ThrottleTime : {0},
     Topics : Arrays([TopicName : FewNames, Partitions : Arrays(ResponsePartitionsV2)])]

\* size() of v, then writeTo(wb) of v on an empty buffer
Encode(name, v, size, bytes) ==
    /\ pc' = "done"
    /\ op' = name
    /\ unit' = v
    /\ sz' = size
    /\ wb' = wb \o bytes
    /\ UNCHANGED <<req, sent, out, ret, err>>

EncodeRequestPartition ==
    /\ pc = "idle"
    /\ \E p \in RequestPartitionsV2 :
          Encode("fetchRequestPartitionV2", p,
                 fetchRequestPartitionV2_size(p), fetchRequestPartitionV2_writeTo(p))

EncodeRequestTopic ==
    /\ pc = "idle"
    /\ \E t \in RequestTopicsV2 :
          Encode("fetchRequestTopicV2", t,
                 fetchRequestTopicV2_size(t), fetchRequestTopicV2_writeTo(t))

EncodeRequest ==
    /\ pc = "idle"
    /\ \E r \in RequestsV2 :
          Encode("fetchRequestV2", r, fetchRequestV2_size(r), fetchRequestV2_writeTo(r))

EncodeResponsePartition ==
    /\ pc = "idle"
    /\ \E p \in ResponsePartitionsV2 :
          Encode("fetchResponsePartitionV2", p,
                 fetchResponsePartitionV2_size(p), fetchResponsePartitionV2_writeTo(p))

EncodeResponseTopic ==
    /\ pc = "idle"
    /\ \E t \in ResponseTopicsV2 :
          Encode("fetchResponseTopicV2", t,
                 fetchResponseTopicV2_size(t), fetchResponseTopicV2_writeTo(t))

EncodeResponse ==
    /\ pc = "idle"
    /\ \E r \in ResponsesV2 :
          Encode("fetchResponseV2", r, fetchResponseV2_size(r), fetchResponseV2_writeTo(r))

----------------------------------------------------------------------------
(* The client: one call of Fetch or MultiFetch *)

Init ==
    /\ pc = "idle"
    /\ op = "none"
    /\ req = NoRequest
    /\ sent = <<>>
    /\ out = NoOutcome
    /\ ret = NilResp
    /\ err = NilErr
    /\ unit = NoRequest
    /\ wb = <<>>
    /\ sz = 0

Next == Fetch \/ MultiFetch \/ MultiFetchReplies

Spec == Init /\ [][Next]_vars

----------------------------------------------------------------------------
(* Properties of Fetch and MultiFetch, checked under Spec *)

FetchDone == pc = "done" /\ op = "Fetch"
MultiFetchDone == pc = "done" /\ op = "MultiFetch"

\* the round trip of the call succeeded
RoundTripOk == out # NoOutcome /\ out.err = NilErr

\* e wraps the error target (errors.Is through one fmt.Errorf)
Wraps(e, target) == e.type = "wrapped" /\ e.err = target

\* the kafka error of a non-zero code
ErrorOfCode(code) == [type |-> "kafka.Error", code |-> code]

\* C1: when a Fetch returns a response, its Error is the error of the first
\* partition's code if that code is not zero, also when the global code is not
\* zero either; the global code decides Error only when the partition code is zero.
FetchPartitionErrorWins ==
    (FetchDone /\ ret # NilResp) =>
        LET partition == out.res.Topics[1].Partitions[1] IN
        /\ partition.ErrorCode # 0 => ret.Error = ErrorOfCode(partition.ErrorCode)
        /\ (partition.ErrorCode = 0 /\ out.res.ErrorCode # 0) =>
                ret.Error = ErrorOfCode(out.res.ErrorCode)
        /\ (partition.ErrorCode = 0 /\ out.res.ErrorCode = 0) => ret.Error = NilErr

\* a Fetch whose reply carried global code 3 and partition code 1 reported code 1
FetchBothCodesSet ==
    /\ FetchDone
    /\ ret # NilResp
    /\ out.res.ErrorCode = 3
    /\ out.res.Topics[1].Partitions[1].ErrorCode = 1
    /\ ret.Error = ErrorOfCode(1)

\* C2: after a successful round trip, Fetch returns nil and an error wrapping
\* ErrNoTopic if the reply has no topic, nil and an error wrapping ErrNoPartition if
\* its first topic has no partition, and a response (with a nil error) only if the
\* reply has a topic with a partition.
FetchMalformedReply ==
    (FetchDone /\ RoundTripOk) =>
        LET topics == out.res.Topics IN
        /\ Len(topics) = 0 => (ret = NilResp /\ Wraps(err, ErrNoTopic))
        /\ (Len(topics) > 0 /\ Len(topics[1].Partitions) = 0) =>
                (ret = NilResp /\ Wraps(err, ErrNoPartition))
        /\ ret # NilResp =>
                /\ err = NilErr
                /\ \E i \in 1..Len(topics) : Len(topics[i].Partitions) > 0
        /\ ret = NilResp => err # NilErr

\* a Fetch refused a reply whose first topic is empty, though its second is not
FetchFirstTopicEmpty ==
    /\ FetchDone
    /\ RoundTripOk
    /\ Len(out.res.Topics) = 2
    /\ Len(out.res.Topics[1].Partitions) = 0
    /\ Len(out.res.Topics[2].Partitions) > 0
    /\ ret = NilResp
    /\ Wraps(err, ErrNoPartition)

\* the reader a response holds for the reply partition p
ReaderFor(records, p) ==
    /\ records # NilReader
    /\ p.Records = NilReader => records = "empty"
    /\ p.Records # NilReader => records = p.Records

\* C3: the Records of every FetchResponse and of every FetchPartitionResponse of a
\* MultiFetchResponse is not nil: the reply's reader when the reply has one, an empty
\* reader when it has none.
RecordsNeverNil ==
    /\ (FetchDone /\ ret # NilResp) =>
            ReaderFor(ret.Records, out.res.Topics[1].Partitions[1])
    /\ (MultiFetchDone /\ ret # NilResp) =>
            \A name \in DOMAIN ret.Responses :
                LET t == out.res.Topics[LastIndex(out.res.Topics, name)] IN
                /\ Len(ret.Responses[name]) = Len(t.Partitions)
                /\ \A i \in 1..Len(t.Partitions) :
                        ReaderFor(ret.Responses[name][i].Records, t.Partitions[i])

\* a MultiFetch returned a topic with an empty reader beside a reader of the reply
MultiFetchReaderSubstituted ==
    /\ MultiFetchDone
    /\ ret # NilResp
    /\ \E name \in DOMAIN ret.Responses :
            /\ Len(ret.Responses[name]) = 2
            /\ ret.Responses[name][1].Records = "empty"
            /\ ret.Responses[name][2].Records = "r1"

\* C4: in a MultiFetchResponse the Error of a partition response is nil exactly when
\* that partition's own code is zero, and is the error of that code otherwise,
\* whatever the global code and the other partitions' codes; the global code shows
\* in MultiFetchResponse.Error alone.
MultiFetchErrorScopes ==
    (MultiFetchDone /\ ret # NilResp) =>
        /\ ret.Error = (IF out.res.ErrorCode = 0 THEN NilErr ELSE ErrorOfCode(out.res.ErrorCode))
        /\ \A name \in DOMAIN ret.Responses :
                LET t == out.res.Topics[LastIndex(out.res.Topics, name)] IN
                \A i \in 1..Len(t.Partitions) :
                    /\ ret.Responses[name][i].Error = NilErr <=> t.Partitions[i].ErrorCode = 0
                    /\ t.Partitions[i].ErrorCode # 0 =>
                            ret.Responses[name][i].Error = ErrorOfCode(t.Partitions[i].ErrorCode)

\* a MultiFetch reply with global code 3 and a failed partition left the other
\* partition of the topic without error
MultiFetchCleanPartition ==
    /\ MultiFetchDone
    /\ ret # NilResp
    /\ out.res.ErrorCode = 3
    /\ ret.Error = ErrorOfCode(3)
    /\ \E name \in DOMAIN ret.Responses :
            /\ Len(ret.Responses[name]) = 2
            /\ ret.Responses[name][1].Error = ErrorOfCode(1)
            /\ ret.Responses[name][2].Error = NilErr

\* C5: a MultiFetch whose topic mapping has no key returns nil and an error, and
\* roundTrip is not called.
MultiFetchEmptyFailsFast ==
    (MultiFetchDone /\ DOMAIN req.Requests = {}) =>
        /\ ret = NilResp
        /\ err # NilErr
        /\ Len(sent) = 0

\* a MultiFetch with no topic failed with ErrNoTopic and sent nothing
MultiFetchEmptyRejected ==
    /\ MultiFetchDone
    /\ DOMAIN req.Requests = {}
    /\ sent = <<>>
    /\ Wraps(err, ErrNoTopic)

\* the request has a topic with a partition spec
HasPartitionSpec(r) == \E t \in DOMAIN r.Requests : Len(r.Requests[t]) > 0

\* C6 as stated: a MultiFetch request without any topic holding a partition spec is
\* refused with no round trip.
MultiFetchNeedsPartitionSpec ==
    (MultiFetchDone /\ ~HasPartitionSpec(req)) =>
        /\ ret = NilResp
        /\ err # NilErr
        /\ Len(sent) = 0

\* C6, amended: a MultiFetch request is refused before any round trip exactly when
\* it has no topic; with a topic, also one whose partition list is empty, roundTrip
\* is called once with every topic of the request and as many partitions as it lists.
MultiFetchNeedsTopic ==
    MultiFetchDone =>
        /\ Len(sent) = 0 <=> DOMAIN req.Requests = {}
        /\ DOMAIN req.Requests # {} =>
            /\ Len(sent) = 1
            /\ {sent[1].Topics[k].Topic : k \in 1..Len(sent[1].Topics)} = DOMAIN req.Requests
            /\ Len(sent[1].Topics) = Cardinality(DOMAIN req.Requests)
            /\ \A k \in 1..Len(sent[1].Topics) :
                    Len(sent[1].Topics[k].Partitions)
                        = Len(req.Requests[sent[1].Topics[k].Topic])

\* a MultiFetch whose two topics list no partition went to the broker
MultiFetchEmptyListsSent ==
    /\ MultiFetchDone
    /\ DOMAIN req.Requests = {"a", "b"}
    /\ ~HasPartitionSpec(req)
    /\ Len(sent) = 1
    /\ Len(sent[1].Topics) = 2
    /\ \A k \in 1..2 : sent[1].Topics[k].Partitions = <<>>

\* C7 as stated: the Topic and Partition of the response of a successful Fetch are
\* those of the request.
FetchEchoesRequest ==
    (FetchDone /\ ret # NilResp /\ err = NilErr) =>
        /\ ret.Topic = req.Topic
        /\ ret.Partition = req.Partition

\* C8 as stated: the PartitionMaxBytes sent for a partition spec is the spec's
\* MaxBytes if that is greater than 0, the request's MaxBytes otherwise.
PartitionMaxBytesIfPositive ==
    (MultiFetchDone /\ Len(sent) = 1) =>
        \A k \in 1..Len(sent[1].Topics) :
            LET t == sent[1].Topics[k] IN
            \A i \in 1..Len(t.Partitions) :
                LET partition == req.Requests[t.Topic][i] IN
                ToInt(t.Partitions[i].PartitionMaxBytes)
                    = (IF IsPositive(partition.MaxBytes) THEN partition.MaxBytes
                       ELSE req.MaxBytes)

\* C8, amended: the PartitionMaxBytes sent for a partition spec is the low 32 bits of
\* the spec's MaxBytes if that is not 0 (a negative one included), and the low 32
\* bits of the request's MaxBytes if it is 0.
PartitionMaxBytesIfNonZero ==
    (MultiFetchDone /\ Len(sent) = 1) =>
        \A k \in 1..Len(sent[1].Topics) :
            LET t == sent[1].Topics[k] IN
            /\ Len(t.Partitions) = Len(req.Requests[t.Topic])
            /\ \A i \in 1..Len(t.Partitions) :
                    LET partition == req.Requests[t.Topic][i] IN
                    /\ partition.MaxBytes = I64(0, 0) =>
                            t.Partitions[i].PartitionMaxBytes = req.MaxBytes.lo
                    /\ partition.MaxBytes # I64(0, 0) =>
                            t.Partitions[i].PartitionMaxBytes = partition.MaxBytes.lo

\* a MultiFetch sent the request's 7 for a spec of 0 and -1 for a spec of -1
PartitionMaxBytesFallback ==
    /\ MultiFetchDone
    /\ Len(sent) = 1
    /\ \E t \in DOMAIN req.Requests :
            /\ Len(req.Requests[t]) = 2
            /\ req.Requests[t][1].MaxBytes = I64(0, 0)
            /\ req.Requests[t][2].MaxBytes = I64(-1, -1)
            /\ \E k \in 1..Len(sent[1].Topics) :
                    /\ sent[1].Topics[k].Topic = t
                    /\ sent[1].Topics[k].Partitions[1].PartitionMaxBytes = 7
                    /\ sent[1].Topics[k].Partitions[2].PartitionMaxBytes = -1

\* C9: a call of Fetch or MultiFetch calls roundTrip at most once; when roundTrip
\* fails, the call returns nil and an error wrapping the transport's, after that one
\* round trip.
OneRoundTrip ==
    (FetchDone \/ MultiFetchDone) =>
        /\ Len(sent) <= 1
        /\ (out # NoOutcome /\ out.err # NilErr) =>
            /\ Len(sent) = 1
            /\ ret = NilResp
            /\ Wraps(err, out.err)
            /\ err.op = (IF op = "Fetch" THEN "kafka.(*Client).Fetch"
                         ELSE "kafka.(*Client).MultiFetch")

\* a MultiFetch whose round trip timed out failed after one round trip
MultiFetchTimedOut ==
    /\ MultiFetchDone
    /\ out # NoOutcome
    /\ out.err = [type |-> "transport", cause |-> "timeout"]
    /\ Len(sent) = 1
    /\ ret = NilResp
    /\ Wraps(err, out.err)

----------------------------------------------------------------------------
(* The codec: one wire value encoded *)

NextCodec ==
    \/ EncodeRequestPartition
    \/ EncodeRequestTopic
    \/ EncodeRequest
    \/ EncodeResponsePartition
    \/ EncodeResponseTopic
    \/ EncodeResponse

SpecCodec == Init /\ [][NextCodec]_vars

----------------------------------------------------------------------------
(* Properties of the v2 wire types, checked under SpecCodec *)

Encoded == pc = "done" /\ op \in
    {"fetchRequestV2", "fetchRequestTopicV2", "fetchRequestPartitionV2",
     "fetchResponseV2", "fetchResponseTopicV2", "fetchResponsePartitionV2"}

\* the number the bytes bs spell, big-endian
RECURSIVE BigEndian(_)
BigEndian(bs) ==
    IF bs = <<>> THEN 0 ELSE BigEndian(SubSeq(bs, 1, Len(bs) - 1)) * 256 + bs[Len(bs)]

\* C10: for every value of the six wire types, empty names and empty arrays
\* included, writeTo appends as many bytes as size() returns; a topic starts with the
\* 2-byte length of its name and the name, followed by the 4-byte count of its
\* partitions.
WrittenEqualsSize ==
    Encoded =>
        /\ Len(wb) = sz
        /\ op \in {"fetchRequestTopicV2", "fetchResponseTopicV2"} =>
            LET n == Len(unit.TopicName) IN
            /\ BigEndian(SubSeq(wb, 1, 2)) = n
            /\ SubSeq(wb, 3, 2 + n) = unit.TopicName
            /\ BigEndian(SubSeq(wb, 3 + n, 6 + n)) = Len(unit.Partitions)
            /\ Len(unit.Partitions) = 0 => sz = 2 + n + 4
        /\ op = "fetchRequestV2" =>
            /\ BigEndian(SubSeq(wb, 13, 16)) = Len(unit.Topics)
            /\ sz >= 16 + 6 * Len(unit.Topics)
        /\ op = "fetchResponseV2" =>
            /\ BigEndian(SubSeq(wb, 5, 8)) = Len(unit.Topics)
            /\ sz >= 8 + 6 * Len(unit.Topics)

\* a request with an unnamed topic without partitions beside a topic with one
\* partition was encoded in 12 + 4 + (2 + 4) + (2 + 1 + 4 + 16) bytes
EncodedEmptyTopic ==
    /\ Encoded
    /\ op = "fetchRequestV2"
    /\ Len(unit.Topics) = 2
    /\ unit.Topics[1].TopicName = <<>>
    /\ unit.Topics[1].Partitions = <<>>
    /\ unit.Topics[2].TopicName = <<97>>
    /\ Len(unit.Topics[2].Partitions) = 1
    /\ sz = 45
    /\ Len(wb) = 45

====
